---- MODULE Spec2Model ----
(***************************************************************************)
(* A model of picoclaw's shell execution tool (pkg/tools/shell.go): the    *)
(* ExecTool configuration, the command guard (deny list, allow list,       *)
(* workspace confinement) and the process runner of ExecTool.Execute.      *)
(*                                                                         *)
(* Commands, paths and output texts are TLA+ strings; Go's byte strings    *)
(* are restricted to ASCII, where len() counts characters.  The model is   *)
(* of the POSIX build (runtime.GOOS # "windows").                          *)
(***************************************************************************)
EXTENDS Integers, Sequences, FiniteSets, TLC

(***************************************************************************)
(* Strings: the helpers of package strings that the tool uses.            *)
(***************************************************************************)

\* The character of s at position i, "" outside the string.
At(s, i) == IF i >= 1 /\ i <= Len(s) THEN SubSeq(s, i, i) ELSE ""

\* s[from:] of Go, with 1-based from.
Drop(s, from) == IF from > Len(s) THEN "" ELSE SubSeq(s, from, Len(s))

\* lit occurs in s starting at position i.
HasAt(s, i, lit) ==
    /\ i >= 1
    /\ i + Len(lit) - 1 <= Len(s)
    /\ SubSeq(s, i, i + Len(lit) - 1) = lit

\* strings.Contains
Contains(s, sub) == \E i \in 1..(Len(s) - Len(sub) + 1) : HasAt(s, i, sub)

\* strings.HasPrefix
HasPrefix(s, prefix) == HasAt(s, 1, prefix)

\* strings.HasSuffix
HasSuffix(s, suffix) == HasAt(s, Len(s) - Len(suffix) + 1, suffix)

UpperLetters == "ABCDEFGHIJKLMNOPQRSTUVWXYZ"
LowerLetters == "abcdefghijklmnopqrstuvwxyz"
Digits == "0123456789"

CharsOf(s) == {SubSeq(s, i, i) : i \in 1..Len(s)}

UpperSet == CharsOf(UpperLetters)
LowerSet == CharsOf(LowerLetters)
DigitSet == CharsOf(Digits)

\* The byte 0x00.  TLA+ has no escape for it; it is written as a symbol that
\* is neither a space, a word character, a quote nor a path separator, like
\* the byte itself, and that no other text of the model contains.
NUL == "~"

ToLowerChar(c) ==
    IF c \in UpperSet
    THEN LET k == CHOOSE k \in 1..Len(UpperLetters) : At(UpperLetters, k) = c
         IN  At(LowerLetters, k)
    ELSE c

\* strings.ToLower
RECURSIVE ToLower(_)
ToLower(s) == IF Len(s) = 0 THEN "" ELSE ToLowerChar(At(s, 1)) \o ToLower(Drop(s, 2))

\* unicode.IsSpace on ASCII (the vertical tab has no TLA+ escape and is left
\* out, as are U+0085 and U+00A0)
IsUnicodeSpace(c) == c \in {" ", "\t", "\n", "\f", "\r"}

\* strings.TrimSpace
RECURSIVE TrimLeft(_)
TrimLeft(s) == IF Len(s) > 0 /\ IsUnicodeSpace(At(s, 1)) THEN TrimLeft(Drop(s, 2)) ELSE s
RECURSIVE TrimRight(_)
TrimRight(s) ==
    IF Len(s) > 0 /\ IsUnicodeSpace(At(s, Len(s)))
    THEN TrimRight(SubSeq(s, 1, Len(s) - 1))
    ELSE s
TrimSpace(s) == TrimRight(TrimLeft(s))

(***************************************************************************)
(* Regular expressions (package regexp, RE2 syntax): the character classes *)
(* and assertions that the tool's patterns use.                            *)
(***************************************************************************)

\* \s of RE2: [\t\n\f\r ]
IsSpace(c) == c \in {" ", "\t", "\n", "\f", "\r"}

\* \w of RE2: [0-9A-Za-z_]
WordSet == UpperSet \cup LowerSet \cup DigitSet \cup {"_"}
IsWord(c) == c \in WordSet

\* \d of RE2
IsDigit(c) == c \in DigitSet

\* \b of RE2, asserted between positions i-1 and i of s.
WordBoundary(s, i) == IsWord(At(s, i - 1)) # IsWord(At(s, i))

\* A literal under (?i): it occurs at i in any letter case.
HasAtI(s, i, lit) ==
    /\ i >= 1
    /\ i + Len(lit) - 1 <= Len(s)
    /\ \A k \in 1..Len(lit) : ToLowerChar(At(s, i + k - 1)) = At(lit, k)

\* Every character of s at positions from..to satisfies the class.
AllSpace(s, from, to) == \A k \in from..to : IsSpace(At(s, k))
AllDigit(s, from, to) == \A k \in from..to : IsDigit(At(s, k))
\* . of RE2 matches any character but the newline.
AllDot(s, from, to) == \A k \in from..to : At(s, k) # "\n"

(***************************************************************************)
(* NewExecTool's deny patterns, one matcher per pattern, in the order of   *)
(* the list.  Each says that the pattern matches somewhere in s.           *)
(***************************************************************************)

\* The rm pattern written for the combined flag only: (?i)\brm\s+(-rf|--recursive)
denyRm_CombinedFlag(s) ==
    \E i \in 1..Len(s) :
        /\ WordBoundary(s, i)
        /\ HasAtI(s, i, "rm")
        /\ \E j \in (i + 3)..Len(s) :
            /\ AllSpace(s, i + 2, j - 1)
            /\ \/ HasAtI(s, j, "-rf")
               \/ HasAtI(s, j, "--recursive")

\* (?i)\brm\s+(-[rf]{1,2}|--recursive|--force)
denyRm(s) ==
    \E i \in 1..Len(s) :
        /\ WordBoundary(s, i)
        /\ HasAtI(s, i, "rm")
        /\ \E j \in (i + 3)..Len(s) :
            /\ AllSpace(s, i + 2, j - 1)
            /\ \/ HasAt(s, j, "-") /\ ToLowerChar(At(s, j + 1)) \in {"r", "f"}
               \/ HasAtI(s, j, "--recursive")
               \/ HasAtI(s, j, "--force")

\* (?i)\bdel\s+/[fq]
denyDel(s) ==
    \E i \in 1..Len(s) :
        /\ WordBoundary(s, i)
        /\ HasAtI(s, i, "del")
        /\ \E j \in (i + 4)..Len(s) :
            /\ AllSpace(s, i + 3, j - 1)
            /\ HasAt(s, j, "/")
            /\ ToLowerChar(At(s, j + 1)) \in {"f", "q"}

\* (?i)\brmdir\s+/s
denyRmdir(s) ==
    \E i \in 1..Len(s) :
        /\ WordBoundary(s, i)
        /\ HasAtI(s, i, "rmdir")
        /\ \E j \in (i + 6)..Len(s) :
            /\ AllSpace(s, i + 5, j - 1)
            /\ HasAtI(s, j, "/s")

\* (?i)\b(format|mkfs|diskpart)\b\s
denyFormat(s) ==
    \E i \in 1..Len(s) :
        /\ WordBoundary(s, i)
        /\ \E w \in {"format", "mkfs", "diskpart"} :
            /\ HasAtI(s, i, w)
            /\ WordBoundary(s, i + Len(w))
            /\ IsSpace(At(s, i + Len(w)))

\* (?i)\bdd\s+if=
denyDd(s) ==
    \E i \in 1..Len(s) :
        /\ WordBoundary(s, i)
        /\ HasAtI(s, i, "dd")
        /\ \E j \in (i + 3)..Len(s) :
            /\ AllSpace(s, i + 2, j - 1)
            /\ HasAtI(s, j, "if=")

\* (?i)>\s*/dev/(sd[a-z]|nvme\d+n\d+|vd[a-z])\b
denyDevWrite(s) ==
    \E i \in 1..Len(s) :
        /\ HasAt(s, i, ">")
        /\ \E j \in (i + 1)..Len(s) :
            /\ AllSpace(s, i + 1, j - 1)
            /\ HasAtI(s, j, "/dev/")
            /\ LET k == j + 5 IN
               \/ /\ \E d \in {"sd", "vd"} : HasAtI(s, k, d)
                  /\ ToLowerChar(At(s, k + 2)) \in LowerSet
                  /\ WordBoundary(s, k + 3)
               \/ /\ HasAtI(s, k, "nvme")
                  /\ \E a \in (k + 5)..Len(s) :
                      /\ AllDigit(s, k + 4, a - 1)
                      /\ HasAtI(s, a, "n")
                      /\ \E b \in (a + 2)..(Len(s) + 1) :
                          /\ AllDigit(s, a + 1, b - 1)
                          /\ WordBoundary(s, b)

\* (?i)\b(shutdown|reboot|poweroff)\b
denyPower(s) ==
    \E i \in 1..Len(s) :
        /\ WordBoundary(s, i)
        /\ \E w \in {"shutdown", "reboot", "poweroff"} :
            /\ HasAtI(s, i, w)
            /\ WordBoundary(s, i + Len(w))

\* :\(\)\s*\{.*\};\s*:
denyForkBomb(s) ==
    \E i \in 1..Len(s) :
        /\ HasAt(s, i, ":()")
        /\ \E j \in (i + 3)..Len(s) :
            /\ AllSpace(s, i + 3, j - 1)
            /\ HasAt(s, j, "{")
            /\ \E k \in (j + 1)..Len(s) :
                /\ AllDot(s, j + 1, k - 1)
                /\ HasAt(s, k, "};")
                /\ \E m \in (k + 2)..Len(s) :
                    /\ AllSpace(s, k + 2, m - 1)
                    /\ HasAt(s, m, ":")

\* (?i)\b(curl|wget)\b.*\|\s*(sh|bash|zsh|dash|ksh|csh|tcsh|fish)
denyPipeToShell(s) ==
    \E i \in 1..Len(s) :
        /\ WordBoundary(s, i)
        /\ \E w \in {"curl", "wget"} :
            /\ HasAtI(s, i, w)
            /\ WordBoundary(s, i + Len(w))
            /\ \E k \in (i + Len(w))..Len(s) :
                /\ AllDot(s, i + Len(w), k - 1)
                /\ HasAt(s, k, "|")
                /\ \E m \in (k + 1)..Len(s) :
                    /\ AllSpace(s, k + 1, m - 1)
                    /\ \E sh \in {"sh", "bash", "zsh", "dash", "ksh", "csh", "tcsh", "fish"} :
                        HasAtI(s, m, sh)

\* (?i)\beval\s+
denyEval(s) ==
    \E i \in 1..Len(s) :
        /\ WordBoundary(s, i)
        /\ HasAtI(s, i, "eval")
        /\ IsSpace(At(s, i + 4))

\* (?i)\bxargs\s+.*\brm\b
denyXargsRm(s) ==
    \E i \in 1..Len(s) :
        /\ WordBoundary(s, i)
        /\ HasAtI(s, i, "xargs")
        /\ \E j \in (i + 6)..Len(s) :
            /\ AllSpace(s, i + 5, j - 1)
            /\ \E k \in j..Len(s) :
                /\ AllDot(s, j, k - 1)
                /\ WordBoundary(s, k)
                /\ HasAtI(s, k, "rm")
                /\ WordBoundary(s, k + 2)

\* Some pattern of t.denyPatterns matches s (the loop of guardCommand).
matchesDeny(s) ==
    \/ denyRm(s)
    \/ denyDel(s)
    \/ denyRmdir(s)
    \/ denyFormat(s)
    \/ denyDd(s)
    \/ denyDevWrite(s)
    \/ denyPower(s)
    \/ denyForkBomb(s)
    \/ denyPipeToShell(s)
    \/ denyEval(s)
    \/ denyXargsRm(s)

(***************************************************************************)
(* Allow patterns are supplied by the caller as pattern sources.  The      *)
(* model covers the sources made of literal characters with an optional    *)
(* leading ^, and the sources that regexp.Compile rejects for a missing    *)
(* closing parenthesis.                                                    *)
(***************************************************************************)

RECURSIVE ParenDepth(_)
ParenDepth(p) ==
    IF Len(p) = 0 THEN 0
    ELSE (IF At(p, 1) = "(" THEN 1 ELSE IF At(p, 1) = ")" THEN -1 ELSE 0)
         + ParenDepth(Drop(p, 2))

\* regexp.Compile(p) returns an error.
CompileFails(p) == ParenDepth(p) # 0

\* re.MatchString(s) for the compiled source re.
MatchString(re, s) ==
    IF HasPrefix(re, "^") THEN HasPrefix(s, Drop(re, 2)) ELSE Contains(s, re)

(***************************************************************************)
(* Package path/filepath on POSIX.                                         *)
(***************************************************************************)

\* The directory os.Getwd reports for the host process.
Getwd == "/srv/picoclaw"

\* strings.Split(s, "/")
RECURSIVE SplitSlash(_)
SplitSlash(s) ==
    IF \E i \in 1..Len(s) : At(s, i) = "/"
    THEN LET i == CHOOSE i \in 1..Len(s) :
                      At(s, i) = "/" /\ \A k \in 1..(i - 1) : At(s, k) # "/"
         IN  <<SubSeq(s, 1, i - 1)>> \o SplitSlash(Drop(s, i + 1))
    ELSE <<s>>

\* strings.Join(elems, "/")
RECURSIVE JoinSlash(_)
JoinSlash(elems) ==
    IF Len(elems) = 0 THEN ""
    ELSE IF Len(elems) = 1 THEN elems[1]
    ELSE elems[1] \o "/" \o JoinSlash(Tail(elems))

\* The element loop of filepath.Clean: empty and "." elements are dropped,
\* ".." removes the element before it, is dropped at the root and is kept at
\* the front of a relative path.
RECURSIVE CleanElems(_, _, _)
CleanElems(elems, out, rooted) ==
    IF Len(elems) = 0 THEN out
    ELSE LET c == Head(elems)
             rest == Tail(elems)
         IN  IF c = "" \/ c = "." THEN CleanElems(rest, out, rooted)
             ELSE IF c = ".."
             THEN IF Len(out) > 0 /\ out[Len(out)] # ".."
                  THEN CleanElems(rest, SubSeq(out, 1, Len(out) - 1), rooted)
                  ELSE IF rooted THEN CleanElems(rest, out, rooted)
                  ELSE CleanElems(rest, Append(out, ".."), rooted)
             ELSE CleanElems(rest, Append(out, c), rooted)

IsAbs(path) == HasPrefix(path, "/")

\* filepath.Clean
Clean(path) ==
    LET rooted == IsAbs(path)
        out == CleanElems(SplitSlash(path), <<>>, rooted)
    IN  IF rooted THEN "/" \o JoinSlash(out)
        ELSE IF Len(out) = 0 THEN "." ELSE JoinSlash(out)

\* filepath.Abs (os.Getwd succeeds)
Abs(path) == IF IsAbs(path) THEN Clean(path) ELSE Clean(Getwd \o "/" \o path)

\* The elements of a cleaned path.
Elems(cleaned) == CleanElems(SplitSlash(cleaned), <<>>, FALSE)

\* The number of leading elements that a and b share.
RECURSIVE CommonPrefixLen(_, _)
CommonPrefixLen(a, b) ==
    IF Len(a) > 0 /\ Len(b) > 0 /\ Head(a) = Head(b)
    THEN 1 + CommonPrefixLen(Tail(a), Tail(b))
    ELSE 0

\* filepath.Rel: [err, rel].  It fails when exactly one of the two paths is
\* rooted, and when base keeps a ".." that targ does not share.
Rel(basepath, targpath) ==
    LET base == Clean(basepath)
        targ == Clean(targpath)
        be == IF base = "." THEN <<>> ELSE Elems(base)
        te == IF targ = "." THEN <<>> ELSE Elems(targ)
        k == CommonPrefixLen(be, te)
        up == [i \in 1..(Len(be) - k) |-> ".."]
        down == SubSeq(te, k + 1, Len(te))
    IN  IF targ = base THEN [err |-> FALSE, rel |-> "."]
        ELSE IF IsAbs(base) # IsAbs(targ) THEN [err |-> TRUE, rel |-> ""]
        ELSE IF \E i \in (k + 1)..Len(be) : be[i] = ".." THEN [err |-> TRUE, rel |-> ""]
        ELSE [err |-> FALSE, rel |-> JoinSlash(up \o down)]

(***************************************************************************)
(* pathPattern of guardCommand: [A-Za-z]:\\[^\\\"']+|/[^\s\"']+            *)
(***************************************************************************)

\* [^\\\"']
InDriveClass(c) == c # "" /\ c \notin {"\\", "\"", "'"}
\* [^\s\"']
InPosixClass(c) == c # "" /\ ~IsSpace(c) /\ c \notin {"\"", "'"}

\* The end of the longest match of pathPattern that starts at i, 0 if none.
\* The drive-letter alternative is tried first.
PathMatchEnd(s, i) ==
    IF /\ At(s, i) \in UpperSet \cup LowerSet
       /\ At(s, i + 1) = ":"
       /\ At(s, i + 2) = "\\"
       /\ InDriveClass(At(s, i + 3))
    THEN CHOOSE e \in (i + 3)..Len(s) :
            /\ \A k \in (i + 3)..e : InDriveClass(At(s, k))
            /\ ~InDriveClass(At(s, e + 1))
    ELSE IF At(s, i) = "/" /\ InPosixClass(At(s, i + 1))
    THEN CHOOSE e \in (i + 1)..Len(s) :
            /\ \A k \in (i + 1)..e : InPosixClass(At(s, k))
            /\ ~InPosixClass(At(s, e + 1))
    ELSE 0

\* pathPattern.FindAllString(s, -1), scanning from position i.
RECURSIVE FindAllString(_, _)
FindAllString(s, i) ==
    IF i > Len(s) THEN <<>>
    ELSE LET e == PathMatchEnd(s, i)
         IN  IF e = 0 THEN FindAllString(s, i + 1)
             ELSE <<SubSeq(s, i, e)>> \o FindAllString(s, e + 1)

(***************************************************************************)
(* ExecTool                                                                *)
(***************************************************************************)

VARIABLES
    workingDir,           \* t.workingDir
    timeout,              \* t.timeout, in seconds
    allowPatterns,        \* t.allowPatterns, the compiled patterns in order
    restrictToWorkspace,  \* t.restrictToWorkspace
    setErr,               \* what the last SetAllowPatterns returned ("" is nil)
    pc,                   \* where the invocation of Execute stands
    args,                 \* the args of the invocation
    cwd,                  \* Execute's local cwd
    spawned,              \* the invocation has started a child process
    child,                \* the child process, what the buffers hold of its output, and
                          \* whether a descendant of it holds the output pipes
    ctxErr,               \* cmdCtx.Err()
    result,               \* the *ToolResult that Execute returned
    setting,              \* the SetAllowPatterns call in progress on another goroutine
    overlap               \* history: a SetAllowPatterns call was in progress during the invocation

vars == <<workingDir, timeout, allowPatterns, restrictToWorkspace, setErr,
          pc, args, cwd, spawned, child, ctxErr, result, setting, overlap>>

\* What only a SetAllowPatterns that runs beside an Execute touches.
race == <<setting, overlap>>

config == <<workingDir, timeout, allowPatterns, restrictToWorkspace, setErr>>

\* A value of args[name]: a string, another type, or no entry.
Str(v) == [type |-> "string", val |-> v]
Missing == [type |-> "missing", val |-> ""]
Number == [type |-> "number", val |-> ""]

NoArgs == [command |-> Missing, working_dir |-> Missing]
NoChild == [state |-> "none", code |-> 0, stdout |-> "", stderr |-> "", held |-> FALSE]
NoResult == [ForLLM |-> "", ForUser |-> "", IsError |-> FALSE]
\* No SetAllowPatterns call is in progress.  Of a call in progress: where
\* it stands, its argument, and (history) the list it found.
NoSetting == [at |-> "none", patterns |-> <<>>, prev |-> <<>>]

\* ErrorResult of package tools: an error result that carries the message.
ErrorResult(message) == [ForLLM |-> message, ForUser |-> message, IsError |-> TRUE]

BlockedDeny == "Command blocked by safety guard (dangerous pattern detected)"
BlockedAllow == "Command blocked by safety guard (not in allowlist)"
BlockedTraversal == "Command blocked by safety guard (path traversal detected)"
BlockedEncoded == "Command blocked by safety guard (URL-encoded path traversal detected)"
BlockedNull == "Command blocked by safety guard (null byte injection detected)"
BlockedOutside == "Command blocked by safety guard (path outside working dir)"

\* The allow-list step with the test of the list's length left out: an
\* empty list permits nothing.
allowlistPermits_NoLengthTest(lower) ==
    \E i \in 1..Len(allowPatterns) : MatchString(allowPatterns[i], lower)

\* The allow-list step of guardCommand: no list, or some pattern matches.
allowlistPermits(lower) ==
    Len(allowPatterns) > 0 =>
        \E i \in 1..Len(allowPatterns) : MatchString(allowPatterns[i], lower)

\* The loop of guardCommand over the path matches: some match lies outside
\* cwdPath.  A match whose Rel fails is skipped.
pathOutside(matches, cwdPath) ==
    \E i \in 1..Len(matches) :
        LET r == Rel(cwdPath, Abs(matches[i]))
        IN  ~r.err /\ HasPrefix(r.rel, "..")

\* The restrictToWorkspace branch with the test for URL-encoded traversal
\* left out.
confinementCheck_NoEncoded(cmd, dir) ==
    IF Contains(cmd, "..\\") \/ Contains(cmd, "../") THEN BlockedTraversal
    ELSE IF Contains(cmd, NUL) \/ Contains(cmd, "%00") THEN BlockedNull
    ELSE IF pathOutside(FindAllString(cmd, 1), Abs(dir)) THEN BlockedOutside
    ELSE ""

\* The restrictToWorkspace branch of guardCommand.
confinementCheck(cmd, dir) ==
    IF Contains(cmd, "..\\") \/ Contains(cmd, "../") THEN BlockedTraversal
    ELSE IF \/ Contains(cmd, "%2e%2e%2f") \/ Contains(cmd, "%2e%2e/")
            \/ Contains(cmd, "..%2f") \/ Contains(cmd, "%2e%2e%5c")
    THEN BlockedEncoded
    ELSE IF Contains(cmd, NUL) \/ Contains(cmd, "%00") THEN BlockedNull
    ELSE IF pathOutside(FindAllString(cmd, 1), Abs(dir)) THEN BlockedOutside
    ELSE ""

\* guardCommand with the allow list consulted first: a command that an
\* allow pattern matches skips the deny patterns.
guardCommand_AllowFirst(command, dir) ==
    LET cmd == TrimSpace(command)
        lower == ToLower(cmd)
        listed == /\ Len(allowPatterns) > 0
                  /\ \E i \in 1..Len(allowPatterns) : MatchString(allowPatterns[i], lower)
    IN  IF ~listed /\ matchesDeny(lower) THEN BlockedDeny
        ELSE IF ~allowlistPermits(lower) THEN BlockedAllow
        ELSE IF restrictToWorkspace THEN confinementCheck(cmd, dir)
        ELSE ""

\* guardCommand: the reason the command is blocked, "" when it is allowed.
guardCommand(command, dir) ==
    LET cmd == TrimSpace(command)
        lower == ToLower(cmd)
    IN  IF matchesDeny(lower) THEN BlockedDeny
        ELSE IF ~allowlistPermits(lower) THEN BlockedAllow
        ELSE IF restrictToWorkspace THEN confinementCheck(cmd, dir)
        ELSE ""

\* Execute's choice of cwd: the working_dir argument when it is a non-empty
\* string, else t.workingDir, else the process's current directory.
effectiveCwd(a) ==
    LET c == IF a.working_dir.type = "string" /\ a.working_dir.val # ""
             THEN a.working_dir.val
             ELSE workingDir
    IN  IF c = "" THEN Getwd ELSE c

\* NewExecTool(workingDir, restrict)
NewExecTool(dir, restrict) ==
    /\ workingDir = dir
    /\ timeout = 60
    /\ allowPatterns = <<>>
    /\ restrictToWorkspace = restrict
    /\ setErr = ""
    /\ pc = "idle"
    /\ args = NoArgs
    /\ cwd = ""
    /\ spawned = FALSE
    /\ child = NoChild
    /\ ctxErr = "nil"
    /\ result = NoResult
    /\ setting = NoSetting
    /\ overlap = FALSE

\* SetTimeout
SetTimeout(d) ==
    /\ pc = "idle"
    /\ timeout' = d
    /\ UNCHANGED <<workingDir, allowPatterns, restrictToWorkspace, setErr,
                   pc, args, cwd, spawned, child, ctxErr, result, race>>

\* SetRestrictToWorkspace
SetRestrictToWorkspace(restrict) ==
    /\ pc = "idle"
    /\ restrictToWorkspace' = restrict
    /\ UNCHANGED <<workingDir, timeout, allowPatterns, setErr,
                   pc, args, cwd, spawned, child, ctxErr, result, race>>

\* The patterns of the list before its first invalid one: what the loop of
\* SetAllowPatterns has appended when it returns.
RECURSIVE compiledPrefix(_)
compiledPrefix(patterns) ==
    IF Len(patterns) = 0 \/ CompileFails(Head(patterns)) THEN <<>>
    ELSE <<Head(patterns)>> \o compiledPrefix(Tail(patterns))

\* SetAllowPatterns: the list is reset, then filled pattern by pattern until
\* one fails to compile.
SetAllowPatterns(patterns) ==
    /\ pc = "idle"
    /\ allowPatterns' = compiledPrefix(patterns)
    /\ setErr' = IF \E i \in 1..Len(patterns) : CompileFails(patterns[i])
                 THEN "invalid allow pattern"
                 ELSE ""
    /\ UNCHANGED <<workingDir, timeout, restrictToWorkspace,
                   pc, args, cwd, spawned, child, ctxErr, result, race>>

\* time.Duration's String for a whole number of seconds, as %v prints it.
formatDuration(d) ==
    IF d < 60 THEN ToString(d) \o "s"
    ELSE IF d < 3600 THEN ToString(d \div 60) \o "m" \o ToString(d % 60) \o "s"
    ELSE ToString(d \div 3600) \o "h" \o ToString((d % 3600) \div 60) \o "m"
         \o ToString(d % 60) \o "s"

\* The error cmd.Run returns, as %v prints it ("" is nil): nil for exit
\* status 0, an *exec.ExitError otherwise.
runErr(c) ==
    IF c.state = "killed" THEN "signal: killed"
    ELSE IF c.code = 0 THEN ""
    ELSE "exit status " \o ToString(c.code)

maxLen == 10000

\* The truncation with the length test off by one: an output of exactly
\* maxLen characters is cut too.
truncate_AtMaxLen(output) ==
    IF Len(output) >= maxLen
    THEN SubSeq(output, 1, maxLen)
         \o "\n... (truncated, " \o ToString(Len(output) - maxLen) \o " more chars)"
    ELSE output

\* output[:maxLen] and the marker, when output is longer than maxLen.
truncate(output) ==
    IF Len(output) > maxLen
    THEN SubSeq(output, 1, maxLen)
         \o "\n... (truncated, " \o ToString(Len(output) - maxLen) \o " more chars)"
    ELSE output

\* output as Execute has built it when it reaches the empty-output test:
\* stdout, the STDERR section, the exit marker.
combinedOutput(c) ==
    c.stdout
    \o (IF Len(c.stderr) > 0 THEN "\nSTDERR:\n" \o c.stderr ELSE "")
    \o (IF runErr(c) # "" THEN "\nExit code: " \o runErr(c) ELSE "")

\* Execute's return with the deadline test after the output is built: the
\* timeout notice is appended to what the child had written.
runResult_TimeoutKeepsOutput(c, ctx) ==
    LET output == combinedOutput(c)
             \o (IF runErr(c) # "" /\ ctx = "DeadlineExceeded"
                 THEN "\nCommand timed out after " \o formatDuration(timeout)
                 ELSE "")
        text == truncate(IF output = "" THEN "(no output)" ELSE output)
    IN  [ForLLM |-> text, ForUser |-> text, IsError |-> runErr(c) # ""]

\* What Execute returns once cmd.Run has returned.
runResult(c, ctx) ==
    IF runErr(c) # "" /\ ctx = "DeadlineExceeded"
    THEN LET msg == "Command timed out after " \o formatDuration(timeout)
         IN  [ForLLM |-> msg, ForUser |-> msg, IsError |-> TRUE]
    ELSE LET output == combinedOutput(c)
             text == truncate(IF output = "" THEN "(no output)" ELSE output)
         IN  [ForLLM |-> text, ForUser |-> text, IsError |-> runErr(c) # ""]

\* Execute_Begin with the guard's answer ignored when the caller names a
\* working directory.
Execute_Begin_GuardSkipped(a) ==
    /\ pc = "idle"
    /\ args' = a
    /\ ctxErr' = "nil"
    /\ IF a.command.type # "string"
       THEN /\ result' = ErrorResult("command is required")
            /\ pc' = "returned"
            /\ UNCHANGED <<cwd, spawned, child>>
       ELSE LET dir == effectiveCwd(a)
                guardError == IF a.working_dir.type = "string" THEN ""
                              ELSE guardCommand(a.command.val, dir)
            IN  /\ cwd' = dir
                /\ IF guardError # ""
                   THEN /\ result' = ErrorResult(guardError)
                        /\ pc' = "returned"
                        /\ UNCHANGED <<spawned, child>>
                   ELSE /\ spawned' = TRUE
                        /\ child' = [NoChild EXCEPT !.state = "running"]
                        /\ pc' = "running"
                        /\ UNCHANGED result
    /\ UNCHANGED <<config, race>>

\* Execute, up to cmd.Run: the argument check, the choice of cwd, the guard,
\* and the start of the child under the timeout context.  The caller's ctx
\* is live when Execute is entered, and t.timeout is positive.
Execute_Begin(a) ==
    /\ pc = "idle"
    /\ args' = a
    /\ ctxErr' = "nil"
    /\ IF a.command.type # "string"
       THEN /\ result' = ErrorResult("command is required")
            /\ pc' = "returned"
            /\ UNCHANGED <<cwd, spawned, child>>
       ELSE LET dir == effectiveCwd(a)
                guardError == guardCommand(a.command.val, dir)
            IN  /\ cwd' = dir
                /\ IF guardError # ""
                   THEN /\ result' = ErrorResult(guardError)
                        /\ pc' = "returned"
                        /\ UNCHANGED <<spawned, child>>
                   ELSE /\ spawned' = TRUE
                        /\ child' = [NoChild EXCEPT !.state = "running"]
                        /\ pc' = "running"
                        /\ UNCHANGED result
    /\ UNCHANGED <<config, race>>

\* The child exits by itself, having written out and errOut.  Stdout and
\* Stderr are buffers, so the child writes to pipes that exec copies from,
\* and a process the child has started inherits their write ends: held
\* says that such a process outlives the child.
ChildExit(code, out, errOut, held) ==
    /\ pc = "running"
    /\ child.state = "running"
    /\ child' = [state |-> "exited", code |-> code, stdout |-> out, stderr |-> errOut,
                 held |-> held]
    /\ UNCHANGED <<config, pc, args, cwd, spawned, ctxErr, result, race>>

\* The child once exec has killed it because the context is done: a child
\* that has already exited is left as it is, and the buffers keep what a
\* running child had written.  The kill reaches the child alone, not the
\* processes it has started.
afterKill(c, out, errOut, held) ==
    IF c.state = "running"
    THEN [state |-> "killed", code |-> -1, stdout |-> out, stderr |-> errOut,
          held |-> held]
    ELSE c

\* cmdCtx's deadline, t.timeout after the start, passes.
DeadlineExceeded(out, errOut, held) ==
    /\ pc = "running"
    /\ ctxErr = "nil"
    /\ ctxErr' = "DeadlineExceeded"
    /\ child' = afterKill(child, out, errOut, held)
    /\ UNCHANGED <<config, pc, args, cwd, spawned, result, race>>

\* The caller cancels the ctx it passed to Execute.
CallerCancel(out, errOut, held) ==
    /\ pc = "running"
    /\ ctxErr = "nil"
    /\ ctxErr' = "Canceled"
    /\ child' = afterKill(child, out, errOut, held)
    /\ UNCHANGED <<config, pc, args, cwd, spawned, result, race>>

\* The last process that held the output pipes closes them or ends.  It
\* has written nothing since the child ended.
DescendantsExit ==
    /\ pc = "running"
    /\ child.state \in {"exited", "killed"}
    /\ child.held
    /\ child' = [child EXCEPT !.held = FALSE]
    /\ UNCHANGED <<config, pc, args, cwd, spawned, ctxErr, result, race>>

\* Execute, from the return of cmd.Run to its own return.  Run returns when
\* the child has ended and the copies from the pipes have met their end:
\* no WaitDelay is set.
Execute_End ==
    /\ pc = "running"
    /\ child.state \in {"exited", "killed"}
    /\ ~child.held
    /\ result' = runResult(child, ctxErr)
    /\ pc' = "returned"
    /\ UNCHANGED <<config, args, cwd, spawned, child, ctxErr, race>>

\* The caller has the result; the invocation's request, context and buffers
\* are gone, and the tool is ready for the next operation.
Execute_Return ==
    /\ pc = "returned"
    /\ pc' = "idle"
    /\ args' = NoArgs
    /\ cwd' = ""
    /\ spawned' = FALSE
    /\ child' = NoChild
    /\ ctxErr' = "nil"
    /\ result' = NoResult
    /\ overlap' = FALSE
    /\ UNCHANGED <<config, setting>>

(***************************************************************************)
(* SetAllowPatterns on one goroutine beside Execute on another.  Nothing   *)
(* orders the setter's writes of t.allowPatterns and the guard's reads of  *)
(* it, so each line that touches the field is a step of its own.  The      *)
(* guard reads the field twice: its length in the test before the loop,    *)
(* and the slice itself in the range clause.                               *)
(***************************************************************************)

\* A step of the setter during an invocation, or an invocation that is
\* entered during a call of the setter, makes the two overlap.
setterSteps == overlap' = (overlap \/ pc # "idle")

\* SetAllowPatterns is entered and begins to store the new, empty slice.
\* The slice header is three words, stored one after the other.
SetAllowPatterns_Call(patterns) ==
    /\ setting.at = "none"
    /\ pc # "panicked"
    /\ setting' = [at |-> "reset", patterns |-> patterns, prev |-> allowPatterns]
    /\ setterSteps
    /\ UNCHANGED <<config, pc, args, cwd, spawned, child, ctxErr, result>>

\* The store of the empty slice is complete.
SetAllowPatterns_Reset ==
    /\ setting.at = "reset"
    /\ pc # "panicked"
    /\ allowPatterns' = <<>>
    /\ setting' = [setting EXCEPT !.at = "loop"]
    /\ setterSteps
    /\ UNCHANGED <<workingDir, timeout, restrictToWorkspace, setErr,
                   pc, args, cwd, spawned, child, ctxErr, result>>

\* One turn of the setter's loop: the next pattern is compiled and appended,
\* or it fails to compile and the call returns the error, or no pattern is
\* left and the call returns nil.
SetAllowPatterns_Loop ==
    /\ setting.at = "loop"
    /\ pc # "panicked"
    /\ LET i == Len(allowPatterns) + 1
       IN  IF i > Len(setting.patterns)
           THEN /\ setErr' = ""
                /\ setting' = NoSetting
                /\ UNCHANGED allowPatterns
           ELSE IF CompileFails(setting.patterns[i])
           THEN /\ setErr' = "invalid allow pattern"
                /\ setting' = NoSetting
                /\ UNCHANGED allowPatterns
           ELSE /\ allowPatterns' = Append(allowPatterns, setting.patterns[i])
                /\ UNCHANGED <<setErr, setting>>
    /\ setterSteps
    /\ UNCHANGED <<workingDir, timeout, restrictToWorkspace,
                   pc, args, cwd, spawned, child, ctxErr, result>>

\* Execute up to the end of the guard's deny loop: the argument check, the
\* choice of cwd, and the deny patterns, which no setter writes.
Execute_Enter(a) ==
    /\ pc = "idle"
    /\ args' = a
    /\ ctxErr' = "nil"
    /\ overlap' = (setting.at # "none")
    /\ IF a.command.type # "string"
       THEN /\ result' = ErrorResult("command is required")
            /\ pc' = "returned"
            /\ UNCHANGED cwd
       ELSE /\ cwd' = effectiveCwd(a)
            /\ IF matchesDeny(ToLower(TrimSpace(a.command.val)))
               THEN /\ result' = ErrorResult(BlockedDeny)
                    /\ pc' = "returned"
               ELSE /\ pc' = "guardLen"
                    /\ UNCHANGED result
    /\ UNCHANGED <<config, spawned, child, setting>>

\* What a read of len(t.allowPatterns) can give: the length stored last,
\* and, while the store of the empty slice is under way, also 0.
lenViews == {Len(allowPatterns)} \cup (IF setting.at = "reset" THEN {0} ELSE {})

\* What a read of the slice t.allowPatterns can give: the slice stored last;
\* while the store of the empty slice is under way also the empty slice, and
\* a torn header, the new array under the old length, whose slots are nil.
listViews ==
    {[torn |-> FALSE, list |-> allowPatterns]}
    \cup (IF setting.at = "reset"
          THEN {[torn |-> FALSE, list |-> <<>>]}
               \cup (IF Len(allowPatterns) > 0
                     THEN {[torn |-> TRUE, list |-> <<>>]}
                     ELSE {})
          ELSE {})

\* The length test with its answer ignored: the guard goes past the allow
\* list whatever it holds.
Guard_ReadLen_SkipsList ==
    /\ pc = "guardLen"
    /\ \E n \in lenViews : pc' = "guardConfine"
    /\ UNCHANGED <<config, args, cwd, spawned, child, ctxErr, result, race>>

\* if len(t.allowPatterns) > 0
Guard_ReadLen ==
    /\ pc = "guardLen"
    /\ \E n \in lenViews : pc' = IF n > 0 THEN "guardRange" ELSE "guardConfine"
    /\ UNCHANGED <<config, args, cwd, spawned, child, ctxErr, result, race>>

\* The loop over t.allowPatterns and the test that follows it.  MatchString
\* on a nil slot of a torn slice is a nil dereference: Execute panics.
Guard_Range ==
    /\ pc = "guardRange"
    /\ \E view \in listViews :
          LET lower == ToLower(TrimSpace(args.command.val))
              allowed == \E i \in 1..Len(view.list) : MatchString(view.list[i], lower)
          IN  IF view.torn
              THEN pc' = "panicked" /\ UNCHANGED result
              ELSE IF allowed
              THEN pc' = "guardConfine" /\ UNCHANGED result
              ELSE pc' = "returned" /\ result' = ErrorResult(BlockedAllow)
    /\ UNCHANGED <<config, args, cwd, spawned, child, ctxErr, race>>

\* The restrictToWorkspace branch of the guard, and its return to Execute.
Guard_Confine ==
    /\ pc = "guardConfine"
    /\ LET guardError == IF restrictToWorkspace
                         THEN confinementCheck(TrimSpace(args.command.val), cwd)
                         ELSE ""
       IN  IF guardError # ""
           THEN pc' = "returned" /\ result' = ErrorResult(guardError)
           ELSE pc' = "guarded" /\ UNCHANGED result
    /\ UNCHANGED <<config, args, cwd, spawned, child, ctxErr, race>>

\* Execute from the guard's empty answer to cmd.Run: the child is started
\* under the timeout context.
Execute_Spawn ==
    /\ pc = "guarded"
    /\ spawned' = TRUE
    /\ child' = [NoChild EXCEPT !.state = "running"]
    /\ pc' = "running"
    /\ UNCHANGED <<config, args, cwd, ctxErr, result, race>>

(***************************************************************************)
(* The inputs of the model.                                                *)
(***************************************************************************)

\* The longest allow list passed to SetAllowPatterns.
MaxAllow == 2
\* How far the longest output exceeds maxLen.
Excess == 5000

\* n copies of the character ch.
RECURSIVE Rep(_, _)
Rep(ch, n) ==
    IF n <= 0 THEN ""
    ELSE LET h == Rep(ch, n \div 2)
         IN  h \o h \o (IF n % 2 = 1 THEN ch ELSE "")

\* The working directory the tool is built with.
Workspace == "/home/user/project"

TimeoutPool == {1}
PatternPool == {"^ls", "^git ", "("}
AllowLists == UNION {[1..n -> PatternPool] : n \in 0..MaxAllow}
ExitCodes == {0, 1}

\* What a child may have written: nothing, a little, and outputs that bring
\* the text of a failed run to maxLen, one past it, and far beyond.
ExitMarker == "\nExit code: exit status 1"
StdoutPool ==
    {"", "ok",
     Rep("x", maxLen - Len(ExitMarker)),
     Rep("x", maxLen - Len(ExitMarker) + 1),
     Rep("x", maxLen),
     Rep("x", maxLen + 1),
     Rep("x", maxLen + Excess)}
StderrPool == {"", "boom"}

Call(command, dir) == [command |-> command, working_dir |-> dir]

\* A few invocations, for the runs whose interest is what the child does.
CoreCalls ==
    {Call(Missing, Missing), Call(Number, Str("/tmp")),
     Call(Str("ls -la"), Missing), Call(Str("echo hi"), Str("/tmp")),
     Call(Str("rm -rf build"), Missing), Call(Str("cat ../secret"), Missing)}

\* The commands for the runs whose interest is the guard.
GuardCommands ==
    {\* recursive delete, in the spellings and surroundings it can take
     "rm -rf build", "RM -RF build", "Rm -r -f build", "rm --recursive --force build",
     "rm --RECURSIVE --FORCE build", "sudo rm  -rf build", "ls;rm -rf build",
     "echo rm -rfv", "  rm\t-r -f build ", "farm -rf build", "x=1rm -r -f build",
     "my_rm --recursive --force build", "/bin/rm -rf build", "rm -rf", "rm build",
     \* the other deny patterns
     "del /f x", "rmdir /s x", "mkfs /dev/sda1", "dd if=/dev/zero of=x",
     "echo x > /dev/sda", "echo x >/dev/nvme0n1", "shutdown now",
     ":(){ :|:& };:", "curl http://x | sh", "eval $x", "eval ", "find . | xargs rm",
     \* the allow list
     "ls -la", "LS -la", "ls; rm -rf build", "git status", "git clean | xargs rm",
     "echo hi", "  ls  ",
     \* confinement
     "cat ../secret", "type ..\\secret", "cat %2e%2e%2fsecret", "cat %2e%2e/secret",
     "cat ..%2fsecret", "cat %2e%2e%5csecret", "cat a" \o NUL \o "b", "cat a%00b",
     "ls ../ && rm -rf x", "ls %2e%2e%2f", "ls /etc", "ls /home/user/project/src",
     "cat /etc/passwd", "cat /home/user/project/src/main.go",
     "cat /home/user/project/../../etc/passwd", "cat '/home/user/project/a b'",
     "cat /home/user/projectx/a", "cat /home/user/project/..foo", "cat /home/user/project",
     "cat src/main.go", "ls src/", "cat 'C:\\data\\x'", "ls ..", "ls /",
     "cat %2E%2E%2Fsecret"}

GuardCalls ==
    {Call(Str(c), d) : c \in GuardCommands, d \in {Missing, Str("/tmp")}}
    \cup {Call(Str("cat /etc/passwd"), Str("")), Call(Missing, Missing),
          Call(Str("cat /tmp/notes"), Str("/tmp"))}

Init == \E dir \in {Workspace, ""}, restrict \in BOOLEAN : NewExecTool(dir, restrict)

NextOver(Timeouts, Calls, Stdouts, Stderrs) ==
    \/ \E d \in Timeouts : SetTimeout(d)
    \/ \E restrict \in BOOLEAN : SetRestrictToWorkspace(restrict)
    \/ \E patterns \in AllowLists : SetAllowPatterns(patterns)
    \/ \E a \in Calls : Execute_Begin(a)
    \/ \E code \in ExitCodes, out \in Stdouts, errOut \in Stderrs, held \in BOOLEAN :
          ChildExit(code, out, errOut, held)
    \/ \E out \in Stdouts, errOut \in Stderrs, held \in BOOLEAN :
          DeadlineExceeded(out, errOut, held)
    \/ \E out \in Stdouts, errOut \in Stderrs, held \in BOOLEAN :
          CallerCancel(out, errOut, held)
    \/ DescendantsExit
    \/ Execute_End
    \/ Execute_Return

\* The tool with a few invocations and every kind of child output.
Next == NextOver(TimeoutPool, CoreCalls, StdoutPool, StderrPool)
Spec == Init /\ [][Next]_vars

\* The tool with every command of GuardCommands, one kind of output, and the
\* timeout it is built with: the guard does not read t.timeout.
NextGuard == NextOver({60}, GuardCalls, {"ok"}, {""})
SpecGuard == Init /\ [][NextGuard]_vars

\* The tool under the scheduling that the runtime provides: the timer of
\* cmdCtx fires, and Execute goes on once cmd.Run can return.  Nothing makes
\* a child end by itself, a caller cancel, or the processes a child has
\* started let go of the pipes.
NextLive == NextOver(TimeoutPool, CoreCalls, {"ok"}, {""})
Fairness ==
    /\ WF_vars(\E held \in BOOLEAN : DeadlineExceeded("ok", "", held))
    /\ WF_vars(Execute_End)
    /\ WF_vars(Execute_Return)
SpecLive == Init /\ [][NextLive]_vars /\ Fairness

\* The allow lists that the setter is called with beside an invocation.
RaceLists == {<<>>, <<"^ls">>, <<"^git ">>, <<"^ls", "^git ">>, <<"^ls", "(">>}

\* The tool with SetAllowPatterns on a goroutine of its own.
NextRace ==
    \/ \E d \in TimeoutPool : SetTimeout(d)
    \/ \E restrict \in BOOLEAN : SetRestrictToWorkspace(restrict)
    \/ \E patterns \in RaceLists : SetAllowPatterns_Call(patterns)
    \/ SetAllowPatterns_Reset
    \/ SetAllowPatterns_Loop
    \/ \E a \in CoreCalls : Execute_Enter(a)
    \/ Guard_ReadLen
    \/ Guard_Range
    \/ Guard_Confine
    \/ Execute_Spawn
    \/ \E code \in ExitCodes, held \in BOOLEAN : ChildExit(code, "ok", "", held)
    \/ \E held \in BOOLEAN : DeadlineExceeded("ok", "", held)
    \/ \E held \in BOOLEAN : CallerCancel("ok", "", held)
    \/ DescendantsExit
    \/ Execute_End
    \/ Execute_Return
SpecRace == Init /\ [][NextRace]_vars

(***************************************************************************)
(* The properties.                                                         *)
(***************************************************************************)

\* The guard's answer for the invocation in progress.  The configuration
\* does not change while an invocation is in progress.
guardOfCall == guardCommand(args.command.val, effectiveCwd(args))

\* C1: a child process is started only for an invocation whose command is
\* a string and for which guardCommand returns no reason; an invocation
\* whose command is missing or not a string, or that the guard blocks for
\* any reason, has returned an error result and has started no process.
C1_SpawnOnlyAfterGuard ==
    /\ (spawned \/ child # NoChild) =>
          /\ args.command.type = "string"
          /\ guardOfCall = ""
    /\ (pc # "idle" /\ (args.command.type # "string" \/ guardOfCall # "")) =>
          /\ pc = "returned"
          /\ result.IsError
          /\ ~spawned
          /\ child = NoChild

\* C1's case: the confinement check has blocked a command, and the
\* invocation has returned without a process.
C1_Witness ==
    /\ pc = "returned"
    /\ args.command.type = "string"
    /\ result = ErrorResult(BlockedTraversal)
    /\ ~spawned

\* The text the guard matches its patterns against: the command without
\* leading and trailing white space, in lower case.
matched(command) == ToLower(TrimSpace(command))

\* Some allow pattern of the configured list matches the text.
someAllowMatches(text) ==
    \E i \in 1..Len(allowPatterns) : MatchString(allowPatterns[i], text)

\* The verdicts of the guard, as an invocation shows them.
Blocked(reason) == pc = "returned" /\ ~spawned /\ result = ErrorResult(reason)
Allowed == spawned /\ child # NoChild

\* C2: deny rules take precedence over allow rules: whatever the allow
\* list, a command whose matched text (trimmed, lower case) matches a deny
\* pattern is blocked for "dangerous pattern detected", also when an allow
\* pattern matches it.
C2_DenyBeforeAllow ==
    (pc # "idle" /\ args.command.type = "string"
        /\ matchesDeny(matched(args.command.val)))
    => Blocked(BlockedDeny)

\* C2's case: a command that a deny pattern and a configured allow pattern
\* both match has been blocked as dangerous.
C2_Witness ==
    /\ args.command.type = "string"
    /\ matchesDeny(matched(args.command.val))
    /\ someAllowMatches(matched(args.command.val))
    /\ Blocked(BlockedDeny)

\* C3: with workspace restriction off and a command that no deny pattern
\* matches: with an empty allow list the command is allowed; with a
\* non-empty allow list it is blocked for "not in allowlist" when no allow
\* pattern matches it, and allowed when one does.
C3_AllowlistSemantics ==
    (pc # "idle" /\ args.command.type = "string" /\ ~restrictToWorkspace
        /\ ~matchesDeny(matched(args.command.val)))
    => IF Len(allowPatterns) = 0 \/ someAllowMatches(matched(args.command.val))
       THEN Allowed
       ELSE Blocked(BlockedAllow)

\* C3's case: under a non-empty allow list, a command that neither a deny
\* nor an allow pattern matches has been blocked.
C3_Witness ==
    /\ args.command.type = "string"
    /\ ~restrictToWorkspace
    /\ Len(allowPatterns) > 0
    /\ ~matchesDeny(matched(args.command.val))
    /\ ~someAllowMatches(matched(args.command.val))
    /\ Blocked(BlockedAllow)

\* C4 (as claimed): a SetAllowPatterns that returns an error leaves the
\* allow list as it was before the call.  A step that ends with an error
\* recorded is either such a call or a step that does not touch the list.
C4_FailedSetKeepsList == [][setErr' # "" => allowPatterns' = allowPatterns]_vars

\* The command passes the deny and the allow rules of the guard.
passesRules(command) ==
    /\ ~matchesDeny(matched(command))
    /\ (Len(allowPatterns) = 0 \/ someAllowMatches(matched(command)))

\* The raw command contains a traversal sequence, literal or
\* percent-encoded, or a null byte.
hasTraversalOrNull(command) ==
    \E seq \in {"../", "..\\", "%2e%2e%2f", "%2e%2e/", "..%2f", "%2e%2e%5c", NUL, "%00"} :
        Contains(command, seq)

\* C5: under restrictToWorkspace, a command that passes the deny and allow
\* rules and whose raw text contains a literal or percent-encoded traversal
\* sequence or a null byte is blocked by one of the three checks, without a
\* process; with restrictToWorkspace off such a command is allowed.
C5_TraversalBlocked ==
    (pc # "idle" /\ args.command.type = "string"
        /\ passesRules(args.command.val) /\ hasTraversalOrNull(args.command.val))
    => IF restrictToWorkspace
       THEN \E reason \in {BlockedTraversal, BlockedEncoded, BlockedNull} : Blocked(reason)
       ELSE Allowed

\* C5's case: percent-encoded traversal has been blocked under
\* restrictToWorkspace.
C5_Witness ==
    /\ restrictToWorkspace
    /\ args.command.type = "string"
    /\ Contains(args.command.val, "%2e%2e%2f")
    /\ Blocked(BlockedEncoded)

\* The absolute path tokens of a command: the runs of characters other than
\* white space and quotes that begin with "/".
tokenEnd(s, i) ==
    CHOOSE e \in i..Len(s) :
        /\ \A k \in i..e : InPosixClass(At(s, k))
        /\ ~InPosixClass(At(s, e + 1))
absoluteTokens(s) ==
    {SubSeq(s, i, tokenEnd(s, i)) :
        i \in {k \in 1..Len(s) : At(s, k) = "/" /\ ~InPosixClass(At(s, k - 1))}}

\* The path resolves outside dir: its path relative to dir begins with a
\* parent-directory segment.
resolvesOutside(dir, path) ==
    LET r == Rel(Abs(dir), Abs(path))
    IN  ~r.err /\ (r.rel = ".." \/ HasPrefix(r.rel, "../"))

\* C6 (as claimed): under restrictToWorkspace, a command that passes the
\* deny and allow rules is blocked when one of its absolute path tokens
\* resolves outside the working directory, and, when it has absolute path
\* tokens, they all resolve inside and it holds no traversal sequence or
\* null byte, it is allowed.
C6_PathConfinement ==
    (pc # "idle" /\ args.command.type = "string" /\ restrictToWorkspace
        /\ passesRules(args.command.val))
    => LET tokens == absoluteTokens(args.command.val)
           W == effectiveCwd(args)
       IN  IF \E tok \in tokens : resolvesOutside(W, tok)
           THEN pc = "returned" /\ ~spawned /\ result.IsError
           ELSE (tokens # {} /\ ~hasTraversalOrNull(args.command.val)) => Allowed

\* The outcome of a timeout: the notice alone, as an error.
timeoutOutcome ==
    LET msg == "Command timed out after " \o formatDuration(timeout)
    IN  [ForLLM |-> msg, ForUser |-> msg, IsError |-> TRUE]

\* C7: when the deadline passes while the child runs, Execute returns the
\* timeout outcome: an error whose text is the notice with the configured
\* duration and nothing of what the child had written; a failed run that
\* did not meet the deadline returns another text.
C7_TimeoutOutcome ==
    /\ (pc = "returned" /\ child.state = "killed" /\ ctxErr = "DeadlineExceeded")
        => /\ result = timeoutOutcome
           /\ result.ForLLM \in {"Command timed out after 1s", "Command timed out after 1m0s"}
    /\ (pc = "returned" /\ spawned /\ runErr(child) # "" /\ ctxErr # "DeadlineExceeded")
        => /\ result.IsError
           /\ result.ForLLM # timeoutOutcome.ForLLM

\* C7's case: a child that had written output was killed at the deadline,
\* and Execute has returned.
C7_Witness ==
    /\ pc = "returned"
    /\ child.state = "killed"
    /\ ctxErr = "DeadlineExceeded"
    /\ child.stdout = "ok"
    /\ child.stderr = "boom"
    /\ result.IsError

\* C8 (as claimed): a child that exits by itself with a non-zero status,
\* the deadline not met, gives an error result whose text holds the exit
\* code marker, whatever the amount of output.
C8_ExitMarkerPresent ==
    (pc = "returned" /\ child.state = "exited" /\ child.code # 0
        /\ ctxErr # "DeadlineExceeded")
    => /\ result.IsError
       /\ Contains(result.ForLLM, "\nExit code: " \o runErr(child))

\* The run was not answered with the timeout outcome.
nonTimeoutRun ==
    pc = "returned" /\ spawned /\ ~(runErr(child) # "" /\ ctxErr = "DeadlineExceeded")

\* C9: for a run that is not a timeout, with n the length of the output
\* text Execute has built (stdout, STDERR section, exit marker): if
\* n > 10000 the returned text is its first 10000 characters followed by
\* the marker with n - 10000; otherwise it is the text itself, or the
\* placeholder "(no output)" when the text is empty.  It is never empty.
C9_Truncation ==
    nonTimeoutRun =>
        LET output == combinedOutput(child)
            n == Len(output)
        IN  /\ result.ForLLM # ""
            /\ result.ForLLM =
                 IF n > 10000
                 THEN SubSeq(output, 1, 10000)
                      \o "\n... (truncated, " \o ToString(n - 10000) \o " more chars)"
                 ELSE IF n = 0 THEN "(no output)"
                 ELSE output

\* C9's case: an output of maxLen + Excess characters has been cut to
\* maxLen characters and the marker that counts the Excess.
C9_Witness ==
    /\ nonTimeoutRun
    /\ Len(combinedOutput(child)) = maxLen + Excess
    /\ Len(result.ForLLM) = maxLen + Len("\n... (truncated, " \o ToString(Excess) \o " more chars)")
    /\ HasSuffix(result.ForLLM, "\n... (truncated, " \o ToString(Excess) \o " more chars)")

\* The positions of the lower-cased raw command at which one of the three
\* recursive-delete spellings begins.
rmOccurrences(command) ==
    LET l == ToLower(command)
    IN  {i \in 1..Len(l) :
            \E lit \in {"rm -rf", "rm -r -f", "rm --recursive --force"} : HasAt(l, i, lit)}

\* The guard has blocked the invocation.
BlockedByGuard == pc = "returned" /\ ~spawned /\ result.IsError

\* C10 (as claimed): a command that contains one of the spellings, in any
\* letter case and with any text around it, is blocked.
C10_RmAlwaysBlocked ==
    (pc # "idle" /\ args.command.type = "string"
        /\ rmOccurrences(args.command.val) # {})
    => BlockedByGuard

\* C10 (amended): a command that contains one of the spellings, in any
\* letter case, at its start or after a character that is not a letter, a
\* digit or an underscore, is blocked as dangerous, whatever follows it.
C10_RmAtWordStartBlocked ==
    (pc # "idle" /\ args.command.type = "string"
        /\ \E i \in rmOccurrences(args.command.val) :
              ~IsWord(At(args.command.val, i - 1)))
    => Blocked(BlockedDeny)

\* C10's case: a spelling that follows other text without a space between
\* them has been blocked.
C10_Witness ==
    /\ args.command.type = "string"
    /\ \E i \in rmOccurrences(args.command.val) :
          /\ i > 1
          /\ ~IsWord(At(args.command.val, i - 1))
          /\ At(args.command.val, i - 1) # " "
    /\ Blocked(BlockedDeny)

\* The command holds a Windows path token: a drive letter, a colon and a
\* backslash.
hasDriveToken(s) ==
    \E i \in 1..Len(s) :
        At(s, i) \in UpperSet \cup LowerSet /\ At(s, i + 1) = ":" /\ At(s, i + 2) = "\\"

\* The command's slashes all lie inside relative paths: it has a slash, no
\* token that begins as an absolute path, and no traversal sequence.
onlyRelativePaths(command) ==
    /\ Contains(command, "/")
    /\ absoluteTokens(command) = {}
    /\ ~hasDriveToken(command)
    /\ ~hasTraversalOrNull(command)

\* C13 (as claimed): under restrictToWorkspace, a command without traversal
\* sequence and without absolute path token, whose slashes all lie inside
\* relative paths, is not blocked for "path outside working dir".
C13_RelativePathNotBlocked ==
    (pc # "idle" /\ args.command.type = "string" /\ restrictToWorkspace
        /\ onlyRelativePaths(args.command.val))
    => ~Blocked(BlockedOutside)

\* C14 (as claimed): under restrictToWorkspace and a non-empty t.workingDir,
\* whatever working_dir the call passes, a spawned command neither runs in a
\* directory outside t.workingDir nor holds an absolute path token that
\* resolves outside t.workingDir.
C14_BoundaryIsWorkingDir ==
    (spawned /\ restrictToWorkspace /\ workingDir # "")
    => /\ ~resolvesOutside(workingDir, cwd)
       /\ \A tok \in absoluteTokens(args.command.val) : ~resolvesOutside(workingDir, tok)

\* The list rejects the text: it is not empty and none of its patterns
\* matches.
rejects(list, text) ==
    /\ Len(list) > 0
    /\ ~\E i \in 1..Len(list) : MatchString(list[i], text)

\* list is the beginning of whole.
IsPrefix(list, whole) ==
    Len(list) <= Len(whole) /\ list = SubSeq(whole, 1, Len(list))

\* C12: while a SetAllowPatterns call is in progress, t.allowPatterns holds
\* the previous list until the reset, and from then on the empty list or a
\* prefix of the new list, and these are what a guard that runs beside the
\* call reads.  When no call overlaps an invocation, a spawned command is one
\* that the configured allow list permits; and no step of Execute or of its
\* child changes the configuration.
C12_SetterRace ==
    /\ [](/\ setting.at = "reset" => allowPatterns = setting.prev
          /\ setting.at = "loop" => IsPrefix(allowPatterns, setting.patterns)
          /\ (spawned /\ ~overlap) => allowlistPermits(matched(args.command.val)))
    /\ [][(pc' # pc \/ child' # child \/ ctxErr' # ctxErr) => UNCHANGED config]_vars

\* C12's case: a command has been spawned beside a SetAllowPatterns call
\* although both the list the call found and the list it was given reject
\* the command: the guard read the reset list in between.
C12_Witness ==
    /\ spawned
    /\ overlap
    /\ setting.at = "loop"
    /\ compiledPrefix(setting.patterns) = setting.patterns
    /\ rejects(setting.prev, matched(args.command.val))
    /\ rejects(setting.patterns, matched(args.command.val))

\* C11 (as claimed): once the deadline has passed or the caller has
\* cancelled while Execute waits in cmd.Run, the child is no longer running
\* and Execute returns in the end.
C11_KilledAndReturns ==
    /\ []((pc = "running" /\ ctxErr # "nil") => child.state # "running")
    /\ (pc = "running" /\ ctxErr # "nil") ~> (pc = "returned")

====
